---- MODULE Spec2Model ----
(***************************************************************************)
(* Model of analysis_rws.py: the RWS statistics pipeline of a Doppler wind *)
(* lidar.  A table (pandas DataFrame) is a set of column names and a       *)
(* sequence of rows.  Angles are fixed-point numbers in hundredths of a    *)
(* degree (10.05 deg = 1005), so the angular tolerance 0.1 deg is 10.      *)
(* A missing value (pandas NaN) is the sentinel NaN, which is outside the  *)
(* range of every measured value.  The plotting backend is a collaborator: *)
(* of a rendering only the directory creation and the file written are     *)
(* modelled.                                                               *)
(*                                                                         *)
(* Two specifications:                                                     *)
(*   Spec      - one run of main() on a CSV file;                          *)
(*   SpecCalls - a single call of one analysis function on a table, with   *)
(*               arguments drawn from small sets (and, for the quality     *)
(*               filter, a second call on the result of the first).        *)
(***************************************************************************)
EXTENDS Integers, Sequences, FiniteSets

\* csv        the input file: its status, the columns and the rows it holds
\* df         main's table (the caller's table in SpecCalls): columns, rows
\* azimuths   main's sorted distinct azimuths
\* elevations main's sorted distinct elevations
\* pc         where main is ("raised": terminated by an uncaught exception)
\* outdir     the output path on disk: "absent", a "dir", or a regular "file"
\* files      the image files written so far
\* ret        what the last call returned or handed to the renderer
\* exc        the exception the last call raised, or "none"
\* trace      the steps main has executed, each with its outcome
VARIABLES csv, df, azimuths, elevations, pc, outdir, files, ret, exc, trace

vars == <<csv, df, azimuths, elevations, pc, outdir, files, ret, exc, trace>>

(***************************************************************************)
(* Bounds and input domains                                                *)
(***************************************************************************)
MaxRows == 2

NaN == 9999

Tol == 10

DefaultCnrThreshold == -20

BaseCols == {"Timestamp", "Azimuth(deg)", "Elevation(deg)", "Distance(m)", "RWS(m/s)", "CNR(dB)"}

Rec(a, e, d, w, c) == [az |-> a, el |-> e, dist |-> d, rws |-> w, cnr |-> c]

\* rows that differ in signal quality only
QualityRecords == {Rec(1000, 300, 50, w, c) : w \in {-2, 3}, c \in {-25, -20, -18, -10}}

\* rows that differ in pointing direction, with jitter below the tolerance
AngleRecords == {Rec(a, e, 50, 3, -10) : a \in {1000, 1005, 1010}, e \in {300, 305, 310}}

\* rows with missing RWS or distance values
MissingRecords == {Rec(a, 300, d, w, -10) : a \in {1000, 1010}, d \in {50, 100, NaN}, w \in {-2, 3, NaN}}

SeqsUpTo(S, n) == UNION {[1..k -> S] : k \in 0..n}

\* the tables of up to n rows, all rows of one family; the small family of
\* quality rows may have one row more
Tables(n) == SeqsUpTo(QualityRecords, n + 1) \cup SeqsUpTo(AngleRecords, n) \cup SeqsUpTo(MissingRecords, n)

TargetAzimuths == {1000, 1005, 1010}

TargetElevations == {300, 305, 310}

Thresholds == {-25, -20, -18, 0}

NoTable == [cols |-> {}, rows |-> <<>>]

NoRet == [fn |-> "none"]

(***************************************************************************)
(* Arithmetic on values that may be missing                                *)
(***************************************************************************)
Abs(x) == IF x < 0 THEN -x ELSE x

IsNaN(x) == x = NaN

\* x >= t on floats: a comparison with NaN is False
Ge(x, t) == ~IsNaN(x) /\ ~IsNaN(t) /\ x >= t

RECURSIVE SumSeq(_)
SumSeq(s) == IF s = <<>> THEN 0 ELSE Head(s) + SumSeq(Tail(s))

RECURSIVE MapAbs(_)
MapAbs(s) == IF s = <<>> THEN <<>> ELSE <<(IF IsNaN(Head(s)) THEN NaN ELSE Abs(Head(s)))>> \o MapAbs(Tail(s))

DropNa(s) == SelectSeq(s, LAMBDA x : ~IsNaN(x))

SetOf(s) == {s[i] : i \in 1..Len(s)}

SetMin(S) == CHOOSE x \in S : \A y \in S : x <= y

SetMax(S) == CHOOSE x \in S : \A y \in S : x >= y

\* sorted(series.unique()) for a column without missing values
RECURSIVE SortedSeq(_)
SortedSeq(S) == IF S = {} THEN <<>> ELSE <<SetMin(S)>> \o SortedSeq(S \ {SetMin(S)})

\* Series.mean(): missing values are skipped; NaN when nothing is left.
\* The mean is the exact fraction num/den.
Mean(s) == IF DropNa(s) = <<>> THEN NaN ELSE [num |-> SumSeq(DropNa(s)), den |-> Len(DropNa(s))]

SeriesMin(s) == IF DropNa(s) = <<>> THEN NaN ELSE SetMin(SetOf(DropNa(s)))

SeriesMax(s) == IF DropNa(s) = <<>> THEN NaN ELSE SetMax(SetOf(DropNa(s)))

RECURSIVE SumSq(_)
SumSq(s) == IF s = <<>> THEN 0 ELSE Head(s) * Head(s) + SumSq(Tail(s))

\* Series.std(): sample standard deviation (ddof = 1), NaN below two values.
\* Represented by its square, the exact fraction num/den.
Std(s) == IF Len(DropNa(s)) < 2 THEN NaN ELSE [num |-> Len(DropNa(s)) * SumSq(DropNa(s)) - SumSeq(DropNa(s)) * SumSeq(DropNa(s)), den |-> Len(DropNa(s)) * (Len(DropNa(s)) - 1)]

\* Series.count(): number of non-missing values
Count(s) == Len(DropNa(s))

RECURSIVE Column(_, _)
Column(rows, c) == IF rows = <<>> THEN <<>> ELSE <<Head(rows)[c]>> \o Column(Tail(rows), c)

\* f'{x:.1f}' of an angle held in hundredths: the value in tenths
Fmt1(x) == (x + 5) \div 10

(***************************************************************************)
(* apply_cnr_filter                                                        *)
(***************************************************************************)
\* variant: the comparison is the wrong way round, rows at or below the
\* threshold are kept
CnrMaskBelow(r, cnr_threshold) == Ge(cnr_threshold, r.cnr)

CnrMask(r, cnr_threshold) == Ge(r.cnr, cnr_threshold)

\* the filtered copy is built first; printing the retained ratio divides by
\* the number of rows given
apply_cnr_filter(t, cnr_threshold) ==
    LET before_count == Len(t.rows)
        df_filtered == [cols |-> t.cols, rows |-> SelectSeq(t.rows, LAMBDA r : CnrMask(r, cnr_threshold))]
    IN  IF before_count = 0
        THEN [exc |-> "ZeroDivisionError", value |-> NoTable]
        ELSE [exc |-> "none", value |-> df_filtered]

(***************************************************************************)
(* Order statistics                                                        *)
(***************************************************************************)
RECURSIVE Insert(_, _)
Insert(x, s) == IF s = <<>> THEN <<x>> ELSE IF x <= Head(s) THEN <<x>> \o s ELSE <<Head(s)>> \o Insert(x, Tail(s))

RECURSIVE SortValues(_)
SortValues(s) == IF s = <<>> THEN <<>> ELSE Insert(Head(s), SortValues(Tail(s)))

\* Series.quantile(q) for q = qnum/qden: linear interpolation between the
\* order statistics at position q*(n-1) of the non-missing values
Quantile(s, qnum, qden) ==
    LET v == SortValues(DropNa(s))
        n == Len(v)
        lo == (qnum * (n - 1)) \div qden
        fr == (qnum * (n - 1)) % qden
        hi == IF fr = 0 THEN lo ELSE lo + 1
    IN  IF n = 0 THEN NaN ELSE [num |-> qden * v[lo + 1] + fr * (v[hi + 1] - v[lo + 1]), den |-> qden]

\* Series.median()
Median(s) ==
    LET v == SortValues(DropNa(s))
        n == Len(v)
    IN  IF n = 0 THEN NaN
        ELSE IF n % 2 = 1 THEN [num |-> v[(n + 1) \div 2], den |-> 1]
        ELSE [num |-> v[n \div 2] + v[n \div 2 + 1], den |-> 2]

(***************************************************************************)
(* Results of a call, and the rendering collaborator                       *)
(***************************************************************************)
None == [kind |-> "None"]

\* the function returned early after printing its warning
Skipped(dirstate, fileset) == [exc |-> "none", outcome |-> "skipped", value |-> None, outdir |-> dirstate, files |-> fileset]

\* the function returned a value and wrote nothing
Returned(v, dirstate, fileset) == [exc |-> "none", outcome |-> "ok", value |-> v, outdir |-> dirstate, files |-> fileset]

\* Path(output_dir).mkdir(exist_ok=True); plt.savefig(filename): mkdir raises
\* when the path exists and is not a directory, savefig raises on an I/O
\* error (ioerr); the directory is created before the file is written
Render(v, filename, dirstate, fileset, ioerr) ==
    IF dirstate = "file"
    THEN [exc |-> "FileExistsError", outcome |-> "raised", value |-> None, outdir |-> dirstate, files |-> fileset]
    ELSE IF ioerr
    THEN [exc |-> "OSError", outcome |-> "raised", value |-> None, outdir |-> "dir", files |-> fileset]
    ELSE [exc |-> "none", outcome |-> "ok", value |-> v, outdir |-> "dir", files |-> fileset \cup {filename}]

(***************************************************************************)
(* Angle selection                                                         *)
(***************************************************************************)
\* variant: closed interval, a difference of exactly the tolerance matches
AzimuthMaskClosed(r, azimuth) == Abs(r.az - azimuth) <= Tol

AzimuthMask(r, azimuth) == Abs(r.az - azimuth) < Tol

ElevationMask(r, elevation) == Abs(r.el - elevation) < Tol

AngleMask(r, azimuth, elevation) == AzimuthMask(r, azimuth) /\ ElevationMask(r, elevation)

SelectAngle(rows, azimuth, elevation) == SelectSeq(rows, LAMBDA r : AngleMask(r, azimuth, elevation))

\* variant: the distinct values of the column rounded to one decimal
UniqueRounded(rows, c) == SortedSeq({10 * Fmt1(x) : x \in SetOf(Column(rows, c))})

\* sorted(df[col].unique())
Unique(rows, c) == SortedSeq(SetOf(Column(rows, c)))

\* the keys of df.groupby(col): distinct non-missing values, ascending
GroupKeys(rows, c) == SortedSeq(SetOf(Column(rows, c)) \ {NaN})

(***************************************************************************)
(* single_angle_statistics                                                 *)
(***************************************************************************)
single_angle_statistics(t, azimuth, elevation, dirstate, fileset) ==
    LET data == Column(SelectAngle(t.rows, azimuth, elevation), "rws")
    IN  IF Len(data) = 0
        THEN Skipped(dirstate, fileset)
        ELSE Returned([kind |-> "stats", selected |-> Len(SelectAngle(t.rows, azimuth, elevation)),
                       count |-> Len(data), mean |-> Mean(data), median |-> Median(data),
                       std |-> Std(data), min |-> SeriesMin(data), max |-> SeriesMax(data),
                       p10 |-> Quantile(data, 1, 10), p50 |-> Quantile(data, 5, 10),
                       p90 |-> Quantile(data, 9, 10)], dirstate, fileset)

(***************************************************************************)
(* analyze_rws_by_distance                                                 *)
(***************************************************************************)
DistanceGroup(data, d) == Column(SelectSeq(data, LAMBDA r : r.dist = d), "rws")

DistanceStats(data) ==
    LET keys == GroupKeys(data, "dist")
    IN  [i \in 1..Len(keys) |->
            [Distance |-> keys[i], mean |-> Mean(DistanceGroup(data, keys[i])),
             std |-> Std(DistanceGroup(data, keys[i])), min |-> SeriesMin(DistanceGroup(data, keys[i])),
             max |-> SeriesMax(DistanceGroup(data, keys[i])), count |-> Count(DistanceGroup(data, keys[i]))]]

analyze_rws_by_distance(t, azimuth, elevation, dirstate, fileset, ioerr) ==
    LET data == SelectAngle(t.rows, azimuth, elevation)
    IN  IF Len(data) = 0
        THEN Skipped(dirstate, fileset)
        ELSE Render([kind |-> "distance_stats", selection |-> data, groups |-> DistanceStats(data)],
                    <<"rws_distance", Fmt1(azimuth), Fmt1(elevation)>>, dirstate, fileset, ioerr)

(***************************************************************************)
(* plot_rws_distribution                                                   *)
(***************************************************************************)
plot_rws_distribution(t, azimuth, elevation, dirstate, fileset, ioerr) ==
    LET data == DropNa(Column(SelectAngle(t.rows, azimuth, elevation), "rws"))
    IN  IF Len(data) = 0
        THEN Skipped(dirstate, fileset)
        ELSE Render([kind |-> "distribution", sample |-> data, mean |-> Mean(data), median |-> Median(data),
                     p10 |-> Quantile(data, 1, 10), p50 |-> Quantile(data, 5, 10), p90 |-> Quantile(data, 9, 10)],
                    <<"rws_distribution", Fmt1(azimuth), Fmt1(elevation)>>, dirstate, fileset, ioerr)

(***************************************************************************)
(* compare_cnr_filtering                                                   *)
(***************************************************************************)
\* the dictionaries stats_before / stats_after
CnrStats(rows) ==
    [count |-> Len(rows), mean |-> Mean(Column(rows, "rws")), std |-> Std(Column(rows, "rws")),
     min |-> SeriesMin(Column(rows, "rws")), max |-> SeriesMax(Column(rows, "rws"))]

compare_cnr_filtering(t, azimuth, elevation, cnr_threshold, dirstate, fileset, ioerr) ==
    LET data_all == SelectAngle(t.rows, azimuth, elevation)
        data_filtered == SelectSeq(data_all, LAMBDA r : CnrMask(r, cnr_threshold))
    IN  IF Len(data_all) = 0
        THEN Skipped(dirstate, fileset)
        ELSE Render([kind |-> "cnr_comparison", stats_before |-> CnrStats(data_all),
                     stats_after |-> CnrStats(data_filtered)],
                    <<"cnr_filter_comparison", Fmt1(azimuth), Fmt1(elevation)>>, dirstate, fileset, ioerr)

(***************************************************************************)
(* compare_azimuths, compare_elevations                                    *)
(***************************************************************************)
\* data[np.abs(data['Azimuth(deg)'] - az) < 0.1]: the rows of one bucket
AzimuthBucket(data, az) == SelectSeq(data, LAMBDA r : AzimuthMask(r, az))

ElevationBucket(data, el) == SelectSeq(data, LAMBDA r : ElevationMask(r, el))

\* data_list holds the RWS values of each bucket, frames the rows they are
\* taken from
compare_azimuths(t, elevation, dirstate, fileset, ioerr) ==
    LET data == SelectSeq(t.rows, LAMBDA r : ElevationMask(r, elevation))
        azs == Unique(data, "az")
    IN  IF Len(data) = 0
        THEN Skipped(dirstate, fileset)
        ELSE Render([kind |-> "azimuth_comparison", selection |-> data, buckets |-> azs,
                     frames |-> [i \in 1..Len(azs) |-> AzimuthBucket(data, azs[i])],
                     data_list |-> [i \in 1..Len(azs) |-> Column(AzimuthBucket(data, azs[i]), "rws")]],
                    <<"azimuth_comparison", Fmt1(elevation)>>, dirstate, fileset, ioerr)

compare_elevations(t, azimuth, dirstate, fileset, ioerr) ==
    LET data == SelectSeq(t.rows, LAMBDA r : AzimuthMask(r, azimuth))
        els == Unique(data, "el")
    IN  IF Len(data) = 0
        THEN Skipped(dirstate, fileset)
        ELSE Render([kind |-> "elevation_comparison", selection |-> data, buckets |-> els,
                     frames |-> [i \in 1..Len(els) |-> ElevationBucket(data, els[i])],
                     data_list |-> [i \in 1..Len(els) |-> Column(ElevationBucket(data, els[i]), "rws")],
                     means |-> [i \in 1..Len(els) |-> Mean(Column(ElevationBucket(data, els[i]), "rws"))],
                     stds |-> [i \in 1..Len(els) |-> Std(Column(ElevationBucket(data, els[i]), "rws"))]],
                    <<"elevation_comparison", Fmt1(azimuth)>>, dirstate, fileset, ioerr)

(***************************************************************************)
(* plot_azimuth_distance_heatmap, plot_elevation_distance_heatmap          *)
(* (the pivot table itself goes to the renderer and is not modelled)       *)
(***************************************************************************)
plot_azimuth_distance_heatmap(t, elevation, dirstate, fileset, ioerr) ==
    LET data == SelectSeq(t.rows, LAMBDA r : ElevationMask(r, elevation))
    IN  IF Len(data) = 0
        THEN Skipped(dirstate, fileset)
        ELSE Render([kind |-> "heatmap_azimuth_distance", selection |-> data],
                    <<"heatmap_azimuth_distance", Fmt1(elevation)>>, dirstate, fileset, ioerr)

plot_elevation_distance_heatmap(t, azimuth, dirstate, fileset, ioerr) ==
    LET data == SelectSeq(t.rows, LAMBDA r : AzimuthMask(r, azimuth))
    IN  IF Len(data) = 0
        THEN Skipped(dirstate, fileset)
        ELSE Render([kind |-> "heatmap_elevation_distance", selection |-> data],
                    <<"heatmap_elevation_distance", Fmt1(azimuth)>>, dirstate, fileset, ioerr)

(***************************************************************************)
(* plot_wind_rose                                                          *)
(***************************************************************************)
\* variant: the group takes every row within the tolerance of the key
AzimuthGroupTolerant(rows, az) == Column(SelectSeq(rows, LAMBDA r : AzimuthMask(r, az)), "rws")

\* the rows of one group of df.groupby('Azimuth(deg)')
AzimuthGroup(rows, az) == Column(SelectSeq(rows, LAMBDA r : r.az = az), "rws")

AzimuthStats(rows) ==
    LET keys == GroupKeys(rows, "az")
    IN  [i \in 1..Len(keys) |->
            [Azimuth |-> keys[i], mean |-> Mean(AzimuthGroup(rows, keys[i])),
             abs_mean |-> Mean(MapAbs(AzimuthGroup(rows, keys[i])))]]

plot_wind_rose(t, dirstate, fileset, ioerr) ==
    Render([kind |-> "wind_rose", input |-> t.rows, azimuth_stats |-> AzimuthStats(t.rows)],
           <<"wind_rose">>, dirstate, fileset, ioerr)

(***************************************************************************)
(* get_data_overview: adds the column AngleComb to the table it is given   *)
(* and returns that same table                                             *)
(***************************************************************************)
get_data_overview(t) ==
    IF BaseCols \subseteq t.cols
    THEN [exc |-> "none", value |-> [cols |-> t.cols \cup {"AngleComb"}, rows |-> t.rows]]
    ELSE [exc |-> "KeyError", value |-> t]

(***************************************************************************)
(* load_lidar_data: pd.read_csv, then df['Timestamp'] is converted         *)
(***************************************************************************)
\* variant: the timestamp conversion is left out when the column is absent
load_lidar_data_lenient(file) ==
    IF file.status = "missing" THEN [exc |-> "FileNotFoundError", value |-> NoTable]
    ELSE IF file.status = "malformed" THEN [exc |-> "ParserError", value |-> NoTable]
    ELSE [exc |-> "none", value |-> [cols |-> file.cols, rows |-> file.rows]]

load_lidar_data(file) ==
    IF file.status = "missing" THEN [exc |-> "FileNotFoundError", value |-> NoTable]
    ELSE IF file.status = "malformed" THEN [exc |-> "ParserError", value |-> NoTable]
    ELSE IF "Timestamp" \notin file.cols THEN [exc |-> "KeyError", value |-> NoTable]
    ELSE [exc |-> "none", value |-> [cols |-> file.cols, rows |-> file.rows]]

(***************************************************************************)
(* SpecCalls: one call of one function                                     *)
(***************************************************************************)
InitCalls ==
    /\ csv = [status |-> "ok", cols |-> BaseCols, rows |-> <<>>]
    /\ df \in {[cols |-> BaseCols, rows |-> rs] : rs \in Tables(MaxRows)}
    /\ azimuths = <<>>
    /\ elevations = <<>>
    /\ pc = "call"
    /\ outdir \in {"absent", "dir", "file"}
    /\ files = {}
    /\ ret = NoRet
    /\ exc = "none"
    /\ trace = <<>>

\* the effect of a call that leaves the table it was given alone
Called(name, arguments, r) ==
    /\ ret' = [fn |-> name, args |-> arguments, outcome |-> r.outcome, value |-> r.value]
    /\ exc' = r.exc
    /\ outdir' = r.outdir
    /\ files' = r.files
    /\ pc' = "called"
    /\ UNCHANGED <<csv, df, azimuths, elevations, trace>>

CallFilter ==
    /\ pc = "call"
    /\ \E t \in Thresholds :
        LET r == apply_cnr_filter(df, t)
        IN  /\ ret' = [fn |-> "apply_cnr_filter", input |-> df, threshold |-> t, value |-> r.value]
            /\ exc' = r.exc
    /\ pc' = "called"
    /\ UNCHANGED <<csv, df, azimuths, elevations, outdir, files, trace>>

\* the filter applied to the table a first call returned, same threshold
CallFilterAgain ==
    /\ pc = "called"
    /\ ret.fn = "apply_cnr_filter"
    /\ exc = "none"
    /\ LET r == apply_cnr_filter(ret.value, ret.threshold)
       IN  /\ ret' = [fn |-> "apply_cnr_filter_again", input |-> ret.value, threshold |-> ret.threshold, value |-> r.value]
           /\ exc' = r.exc
    /\ pc' = "called2"
    /\ UNCHANGED <<csv, df, azimuths, elevations, outdir, files, trace>>

\* the filter applied to the same table with two thresholds, the second
\* not below the first
CallFilterPair ==
    /\ pc = "call"
    /\ \E t1 \in Thresholds, t2 \in Thresholds :
        /\ t1 <= t2
        /\ ret' = [fn |-> "apply_cnr_filter_pair", input |-> df, low |-> t1, high |-> t2,
                   at_low |-> apply_cnr_filter(df, t1), at_high |-> apply_cnr_filter(df, t2)]
        /\ exc' = apply_cnr_filter(df, t2).exc
    /\ pc' = "called"
    /\ UNCHANGED <<csv, df, azimuths, elevations, outdir, files, trace>>

CallOverview ==
    /\ pc = "call"
    /\ LET r == get_data_overview(df)
       IN  /\ df' = r.value
           /\ ret' = [fn |-> "get_data_overview", input |-> df, value |-> r.value]
           /\ exc' = r.exc
    /\ pc' = "called"
    /\ UNCHANGED <<csv, azimuths, elevations, outdir, files, trace>>

CallStatistics ==
    /\ pc = "call"
    /\ \E a \in TargetAzimuths, e \in TargetElevations :
        Called("single_angle_statistics", [azimuth |-> a, elevation |-> e],
               single_angle_statistics(df, a, e, outdir, files))

CallDistance ==
    /\ pc = "call"
    /\ \E a \in TargetAzimuths, e \in TargetElevations, ioerr \in BOOLEAN :
        Called("analyze_rws_by_distance", [azimuth |-> a, elevation |-> e],
               analyze_rws_by_distance(df, a, e, outdir, files, ioerr))

CallDistribution ==
    /\ pc = "call"
    /\ \E a \in TargetAzimuths, e \in TargetElevations, ioerr \in BOOLEAN :
        Called("plot_rws_distribution", [azimuth |-> a, elevation |-> e],
               plot_rws_distribution(df, a, e, outdir, files, ioerr))

CallCnrComparison ==
    /\ pc = "call"
    /\ \E a \in TargetAzimuths, e \in TargetElevations, t \in Thresholds, ioerr \in BOOLEAN :
        Called("compare_cnr_filtering", [azimuth |-> a, elevation |-> e, threshold |-> t],
               compare_cnr_filtering(df, a, e, t, outdir, files, ioerr))

CallAzimuths ==
    /\ pc = "call"
    /\ \E e \in TargetElevations, ioerr \in BOOLEAN :
        Called("compare_azimuths", [elevation |-> e], compare_azimuths(df, e, outdir, files, ioerr))

CallElevations ==
    /\ pc = "call"
    /\ \E a \in TargetAzimuths, ioerr \in BOOLEAN :
        Called("compare_elevations", [azimuth |-> a], compare_elevations(df, a, outdir, files, ioerr))

CallAzimuthHeatmap ==
    /\ pc = "call"
    /\ \E e \in TargetElevations, ioerr \in BOOLEAN :
        Called("plot_azimuth_distance_heatmap", [elevation |-> e],
               plot_azimuth_distance_heatmap(df, e, outdir, files, ioerr))

CallElevationHeatmap ==
    /\ pc = "call"
    /\ \E a \in TargetAzimuths, ioerr \in BOOLEAN :
        Called("plot_elevation_distance_heatmap", [azimuth |-> a],
               plot_elevation_distance_heatmap(df, a, outdir, files, ioerr))

CallWindRose ==
    /\ pc = "call"
    /\ \E ioerr \in BOOLEAN :
        Called("plot_wind_rose", [table |-> df], plot_wind_rose(df, outdir, files, ioerr))

NextCalls ==
    \/ CallFilter
    \/ CallFilterAgain
    \/ CallFilterPair
    \/ CallOverview
    \/ CallStatistics
    \/ CallDistance
    \/ CallDistribution
    \/ CallCnrComparison
    \/ CallAzimuths
    \/ CallElevations
    \/ CallAzimuthHeatmap
    \/ CallElevationHeatmap
    \/ CallWindRose

SpecCalls == InitCalls /\ [][NextCalls]_vars

(***************************************************************************)
(* Spec: one run of main()                                                 *)
(***************************************************************************)
BadFiles ==
    {[status |-> "missing", cols |-> {}, rows |-> <<>>], [status |-> "malformed", cols |-> {}, rows |-> <<>>]}
    \cup {[status |-> "ok", cols |-> BaseCols \ {c}, rows |-> <<>>] : c \in {"Timestamp", "CNR(dB)"}}

Init ==
    /\ csv \in {[status |-> "ok", cols |-> BaseCols, rows |-> rs] : rs \in Tables(MaxRows)} \cup BadFiles
    /\ df = NoTable
    /\ azimuths = <<>>
    /\ elevations = <<>>
    /\ pc = "load"
    /\ outdir \in {"absent", "dir", "file"}
    /\ files = {}
    /\ ret = NoRet
    /\ exc = "none"
    /\ trace = <<>>

\* one analysis step of main: the call's result, and where main goes next
\* (an exception is not caught anywhere in main)
Step(name, next, r) ==
    /\ ret' = [fn |-> name, outcome |-> r.outcome, value |-> r.value]
    /\ exc' = r.exc
    /\ outdir' = r.outdir
    /\ files' = r.files
    /\ trace' = Append(trace, [step |-> name, outcome |-> r.outcome])
    /\ pc' = IF r.exc = "none" THEN next ELSE "raised"
    /\ UNCHANGED <<csv, df, azimuths, elevations>>

\* a step main does not take because its guard is false
Bypass(next) ==
    /\ pc' = next
    /\ UNCHANGED <<csv, df, azimuths, elevations, outdir, files, ret, exc, trace>>

Load ==
    /\ pc = "load"
    /\ LET r == load_lidar_data(csv)
       IN  /\ df' = r.value
           /\ exc' = r.exc
           /\ pc' = IF r.exc = "none" THEN "overview" ELSE "raised"
    /\ UNCHANGED <<csv, azimuths, elevations, outdir, files, ret, trace>>

Overview ==
    /\ pc = "overview"
    /\ LET r == get_data_overview(df)
       IN  /\ df' = r.value
           /\ exc' = r.exc
           /\ pc' = IF r.exc = "none" THEN "angles" ELSE "raised"
    /\ trace' = Append(trace, [step |-> "get_data_overview", outcome |-> IF get_data_overview(df).exc = "none" THEN "ok" ELSE "raised"])
    /\ UNCHANGED <<csv, azimuths, elevations, outdir, files, ret>>

UniqueAngles ==
    /\ pc = "angles"
    /\ azimuths' = Unique(df.rows, "az")
    /\ elevations' = Unique(df.rows, "el")
    /\ pc' = "statistics"
    /\ UNCHANGED <<csv, df, outdir, files, ret, exc, trace>>

HaveBoth == Len(azimuths) > 0 /\ Len(elevations) > 0

Statistics ==
    /\ pc = "statistics"
    /\ IF HaveBoth
       THEN Step("single_angle_statistics", "distance",
                 single_angle_statistics(df, azimuths[1], elevations[1], outdir, files))
       ELSE Bypass("azimuths")

Distance ==
    /\ pc = "distance"
    /\ \E ioerr \in BOOLEAN :
        Step("analyze_rws_by_distance", "distribution",
             analyze_rws_by_distance(df, azimuths[1], elevations[1], outdir, files, ioerr))

Distribution ==
    /\ pc = "distribution"
    /\ \E ioerr \in BOOLEAN :
        Step("plot_rws_distribution", "cnr",
             plot_rws_distribution(df, azimuths[1], elevations[1], outdir, files, ioerr))

CnrComparison ==
    /\ pc = "cnr"
    /\ \E ioerr \in BOOLEAN :
        Step("compare_cnr_filtering", "azimuths",
             compare_cnr_filtering(df, azimuths[1], elevations[1], DefaultCnrThreshold, outdir, files, ioerr))

Azimuths ==
    /\ pc = "azimuths"
    /\ IF Len(elevations) > 0
       THEN \E ioerr \in BOOLEAN :
               Step("compare_azimuths", "elevations", compare_azimuths(df, elevations[1], outdir, files, ioerr))
       ELSE Bypass("elevations")

Elevations ==
    /\ pc = "elevations"
    /\ IF Len(azimuths) > 0
       THEN \E ioerr \in BOOLEAN :
               Step("compare_elevations", "heatmap_azimuth", compare_elevations(df, azimuths[1], outdir, files, ioerr))
       ELSE Bypass("heatmap_azimuth")

AzimuthHeatmap ==
    /\ pc = "heatmap_azimuth"
    /\ IF Len(elevations) > 0
       THEN \E ioerr \in BOOLEAN :
               Step("plot_azimuth_distance_heatmap", "heatmap_elevation",
                    plot_azimuth_distance_heatmap(df, elevations[1], outdir, files, ioerr))
       ELSE Bypass("heatmap_elevation")

ElevationHeatmap ==
    /\ pc = "heatmap_elevation"
    /\ IF Len(azimuths) > 0
       THEN \E ioerr \in BOOLEAN :
               Step("plot_elevation_distance_heatmap", "wind_rose",
                    plot_elevation_distance_heatmap(df, azimuths[1], outdir, files, ioerr))
       ELSE Bypass("wind_rose")

\* the last step; on return main prints the completion message
WindRose ==
    /\ pc = "wind_rose"
    /\ \E ioerr \in BOOLEAN :
        Step("plot_wind_rose", "done", plot_wind_rose(df, outdir, files, ioerr))

Next ==
    \/ Load
    \/ Overview
    \/ UniqueAngles
    \/ Statistics
    \/ Distance
    \/ Distribution
    \/ CnrComparison
    \/ Azimuths
    \/ Elevations
    \/ AzimuthHeatmap
    \/ ElevationHeatmap
    \/ WindRose

Spec == Init /\ [][Next]_vars

(***************************************************************************)
(* Properties                                                              *)
(***************************************************************************)
\* the indices of the rows a threshold keeps, and the position of a kept
\* row among the kept rows
Kept(rows, t) == {i \in DOMAIN rows : rows[i].cnr >= t}

Rank(S, i) == Cardinality({j \in S : j <= i})

\* out is the subsequence of rows at the indices S, in the order of rows
IsSubsequenceAt(out, rows, S) ==
    /\ Len(out) = Cardinality(S)
    /\ \A i \in S : out[Rank(S, i)] = rows[i]

\* C1: for every table R and threshold t, apply_cnr_filter(R, t) returns
\* exactly the rows of R whose CNR is >= t, in the order of R, and leaves R
\* unchanged.
C1_FilterReturnsKeptRows ==
    (pc = "called" /\ ret.fn = "apply_cnr_filter") =>
        /\ exc = "none"
        /\ IsSubsequenceAt(ret.value.rows, ret.input.rows, Kept(ret.input.rows, ret.threshold))
        /\ df = ret.input

\* C2: filtering the result of a filter again with the same threshold
\* completes and returns the same table, also when the first filter removed
\* every row.
C2_FilterIdempotent ==
    ret.fn = "apply_cnr_filter_again" => (exc = "none" /\ ret.value = ret.input)

\* the rows of the table whose angles lie strictly within the tolerance of
\* the requested direction
Matching(rows, a, e) ==
    {i \in DOMAIN rows : /\ rows[i].az - a < Tol /\ a - rows[i].az < Tol
                         /\ rows[i].el - e < Tol /\ e - rows[i].el < Tol}

LastStep == trace[Len(trace)]

\* no row of the table matches the first azimuth and the first elevation
\* together, the combination main analyses
NoMatch == HaveBoth /\ Matching(df.rows, azimuths[1], elevations[1]) = {}

SingleAngleSteps == {"single_angle_statistics", "analyze_rws_by_distance", "plot_rws_distribution", "compare_cnr_filtering"}

C5_NoSummaryOfEmptySample ==
    /\ (ret.fn = "single_angle_statistics" /\ ret.outcome = "ok") => ret.value.count > 0
    /\ (ret.fn = "compare_cnr_filtering" /\ ret.outcome = "ok") =>
           (ret.value.stats_before.count > 0 /\ ret.value.stats_after.count > 0)

RECURSIVE SumCounts(_)
SumCounts(groups) == IF groups = <<>> THEN 0 ELSE Head(groups).count + SumCounts(Tail(groups))

Ascending(s) == \A i, j \in DOMAIN s : i < j => s[i] < s[j]

\* C6: in analyze_rws_by_distance the per-group counts sum to the number of
\* selected rows, there is exactly one group per distinct distance value of
\* the selection, and the groups are in ascending distance order, also when
\* rows of the selection lack an RWS or a distance value.
C6_DistanceGroupsPreserveCount ==
    (pc = "called" /\ ret.fn = "analyze_rws_by_distance" /\ ret.outcome = "ok") =>
        /\ SumCounts(ret.value.groups) = Len(ret.value.selection)
        /\ {ret.value.groups[i].Distance : i \in DOMAIN ret.value.groups}
               = {ret.value.selection[i].dist : i \in DOMAIN ret.value.selection}
        /\ Ascending([i \in DOMAIN ret.value.groups |-> ret.value.groups[i].Distance])

RECURSIVE SumLens(_)
SumLens(lists) == IF lists = <<>> THEN 0 ELSE Len(Head(lists)) + SumLens(Tail(lists))

\* C7: compare_azimuths and compare_elevations partition the rows matching
\* the fixed angle: the buckets are in ascending order of their value, and
\* the bucket sizes sum to the size of the selection, each selected row being
\* in exactly one bucket, also when two bucket values are less than 0.1
\* degree apart.
C7_BucketsPartitionSelection ==
    (pc = "called" /\ ret.fn \in {"compare_azimuths", "compare_elevations"} /\ ret.outcome = "ok") =>
        /\ Ascending(ret.value.buckets)
        /\ SumLens(ret.value.data_list) = Len(ret.value.selection)
        /\ \A r \in SetOf(ret.value.selection) :
               Cardinality({i \in DOMAIN ret.value.frames : r \in SetOf(ret.value.frames[i])}) = 1

\* C8: every stage after loading leaves the loaded table as it was: same
\* columns, same rows.
C8_StagesLeaveTableUnchanged == [][pc # "load" => df' = df]_vars

\* C9: a failure of one analysis step of main is isolated: main does not
\* terminate on it but goes on with the later steps.
C9_StepFailureIsolated ==
    (trace # <<>> /\ LastStep.outcome = "raised" /\ LastStep.step # "get_data_overview") => pc # "raised"

RECURSIVE SumAbsAt(_, _)
SumAbsAt(rows, S) ==
    IF S = {} THEN 0
    ELSE LET i == CHOOSE k \in S : TRUE IN Abs(rows[i].rws) + SumAbsAt(rows, S \ {i})

\* the rows of the table at exactly this azimuth that carry an RWS value
AtAzimuth(rows, a) == {i \in DOMAIN rows : rows[i].az = a /\ rows[i].rws # NaN}

\* C10: the wind rose main draws is computed from the whole loaded table, no
\* elevation or CNR restriction: one bucket per distinct azimuth value, by
\* exact equality, in ascending order, the radius of a bucket being the mean
\* of |RWS| over the rows with exactly that azimuth (the mean skips missing
\* RWS values and is undefined when the bucket has none).
C10_WindRoseOverFullTable ==
    (ret.fn = "plot_wind_rose" /\ ret.outcome = "ok") =>
        LET st == ret.value.azimuth_stats
        IN  /\ ret.value.input = csv.rows
            /\ {st[i].Azimuth : i \in DOMAIN st} = {csv.rows[i].az : i \in DOMAIN csv.rows}
            /\ Ascending([i \in DOMAIN st |-> st[i].Azimuth])
            /\ \A i \in DOMAIN st :
                   LET S == AtAzimuth(csv.rows, st[i].Azimuth)
                   IN  IF S = {} THEN st[i].abs_mean = NaN
                       ELSE st[i].abs_mean = [num |-> SumAbsAt(csv.rows, S), den |-> Cardinality(S)]

\* main drew a wind rose with two buckets less than 0.1 degree apart from a
\* table with rows at different elevations
C10_Witness ==
    /\ pc = "done"
    /\ ret.fn = "plot_wind_rose"
    /\ \E i, j \in DOMAIN ret.value.azimuth_stats :
          i # j /\ Abs(ret.value.azimuth_stats[i].Azimuth - ret.value.azimuth_stats[j].Azimuth) < Tol
    /\ \E i, j \in DOMAIN csv.rows : csv.rows[i].el # csv.rows[j].el

\* the input file cannot be loaded: it is missing or malformed, or it has
\* no Timestamp column
LoadFails == csv.status \in {"missing", "malformed"} \/ "Timestamp" \notin csv.cols

\* C11: a load failure is fatal: when load_lidar_data fails, main terminates
\* there, having executed neither the data overview nor any analysis step,
\* written no artifact and not created the output directory.
C11_LoadFailureFatal ==
    /\ [](LoadFails => (pc \in {"load", "raised"} /\ trace = <<>> /\ files = {} /\ ret = NoRet))
    /\ [][LoadFails => (pc' = "raised" /\ exc' # "none" /\ outdir' = outdir /\ df' = NoTable)]_vars

\* main terminated by the KeyError of a file without Timestamp column, the
\* output directory still absent
C11_Witness ==
    /\ pc = "raised"
    /\ exc = "KeyError"
    /\ "Timestamp" \notin csv.cols
    /\ trace = <<>>
    /\ outdir = "absent"

\* an integer is at most, or at least, the fraction f
IntLeFrac(x, f) == x * f.den <= f.num

FracLeInt(f, x) == f.num <= x * f.den

\* C12: for every non-empty angle-matched sample the summary of
\* single_angle_statistics has min <= median <= max and min <= mean <= max
\* (all four are numbers), and its count is the number of selected rows.
C12_SummaryOrdered ==
    (pc = "called" /\ ret.fn = "single_angle_statistics" /\ ret.outcome = "ok") =>
        /\ ret.value.count = Cardinality(Matching(df.rows, ret.args.azimuth, ret.args.elevation))
        /\ ret.value.min # NaN
        /\ ret.value.max # NaN
        /\ IntLeFrac(ret.value.min, ret.value.median) /\ FracLeInt(ret.value.median, ret.value.max)
        /\ IntLeFrac(ret.value.min, ret.value.mean) /\ FracLeInt(ret.value.mean, ret.value.max)

\* out is a subsequence of rows: the rows at some set of indices, in order
IsSubsequence(out, rows) == \E S \in SUBSET DOMAIN rows : IsSubsequenceAt(out, rows, S)

\* C13: the quality filter is monotonic in the threshold: for thresholds
\* t1 <= t2 the rows apply_cnr_filter keeps at t2 are among those it keeps at
\* t1, so the retained count does not grow (on a table the filter cannot
\* process, neither call returns anything).
C13_FilterMonotonic ==
    (pc = "called" /\ ret.fn = "apply_cnr_filter_pair") =>
        /\ ret.at_low.exc = ret.at_high.exc
        /\ ret.at_low.exc = "none" =>
               /\ IsSubsequence(ret.at_high.value.rows, ret.at_low.value.rows)
               /\ Len(ret.at_high.value.rows) <= Len(ret.at_low.value.rows)

\* two calls of which the one with the higher threshold kept strictly fewer
\* rows, but not none
C13_Witness ==
    /\ pc = "called"
    /\ ret.fn = "apply_cnr_filter_pair"
    /\ ret.at_low.exc = "none"
    /\ ret.low < ret.high
    /\ Len(ret.at_high.value.rows) > 0
    /\ Len(ret.at_high.value.rows) < Len(ret.at_low.value.rows)

\* the rows matching the fixed angle of a comparison, and the name of the
\* angle that varies
FixedSelection == IF ret.fn = "compare_azimuths"
                  THEN {i \in DOMAIN df.rows : Abs(df.rows[i].el - ret.args.elevation) < Tol}
                  ELSE {i \in DOMAIN df.rows : Abs(df.rows[i].az - ret.args.azimuth) < Tol}

Varying == IF ret.fn = "compare_azimuths" THEN "az" ELSE "el"

\* C14: in compare_azimuths and compare_elevations, whenever the selection by
\* the fixed angle is non-empty, there is one bucket per distinct value of
\* the varying angle in the selection, and the sample of every bucket is
\* non-empty: it holds at least the selected rows whose varying angle equals
\* the bucket value.
C14_BucketsNonEmpty ==
    (pc = "called" /\ ret.fn \in {"compare_azimuths", "compare_elevations"} /\ ret.outcome # "raised") =>
        /\ (FixedSelection # {}) <=> (ret.outcome = "ok")
        /\ ret.outcome = "ok" =>
               /\ Len(ret.value.buckets) = Cardinality({df.rows[i][Varying] : i \in FixedSelection})
               /\ SetOf(ret.value.buckets) = {df.rows[i][Varying] : i \in FixedSelection}
               /\ Len(ret.value.data_list) = Len(ret.value.buckets)
               /\ \A b \in DOMAIN ret.value.buckets :
                      LET exact == {i \in FixedSelection : df.rows[i][Varying] = ret.value.buckets[b]}
                      IN  /\ Len(ret.value.data_list[b]) > 0
                          /\ Len(ret.value.data_list[b]) >= Cardinality(exact)
                          /\ \A i \in exact : df.rows[i] \in SetOf(ret.value.frames[b])

\* a comparison with two buckets less than 0.1 degree apart
C14_Witness ==
    /\ pc = "called"
    /\ ret.fn \in {"compare_azimuths", "compare_elevations"}
    /\ ret.outcome = "ok"
    /\ Len(ret.value.buckets) = 2
    /\ ret.value.buckets[2] - ret.value.buckets[1] < Tol

====
